---- MODULE Spec2Model ----
(***************************************************************************)
(* FastAnalogRead: an adaptive smoothing filter for analogRead samples     *)
(* (src/src/FastAnalogRead.cpp).  The filter state is held in              *)
(* FastAnalogFixed numbers, a signed binary fixed-point type; a value is   *)
(* modelled by its internal integer, i.e. the number times 2^fracBits.     *)
(***************************************************************************)
EXTENDS Integers, Sequences, FiniteSets, TLC

VARIABLES
    \* ---- FastAnalogRead object: configuration
    pin, sleepEnable, edgeSnapEnable, snapMultiplier,
    activityThreshold, analogResolution,
    \* ---- FastAnalogRead object: filter state
    smoothValue, errorEMA, sleeping,
    rawValue, responsiveValue, prevResponsiveValue, responsiveValueHasChanged,
    \* ---- function-local statics of enableFastADC and the ADC registers
    platform, enabled, prevState, ADCSRA,
    prevCTRLB, prevAVGCTRL, prevSAMPCTRL, CTRLA_ENABLE, CTRLB, AVGCTRL, SAMPCTRL,
    \* ---- width of the fraction of FastAnalogFixed (fixed for a behaviour)
    fracBits,
    \* ---- observation of the last call: its name, its argument, the local
    \*      newValue of getResponsiveValue after the edge-snap block, and
    \*      the converter's configuration as enableFastADC(true) found it
    lastOp, lastArg, newValueSeen, before,
    \* ---- whether the filter started asleep and every sample since then
    \*      came while it slept, within activityThreshold units of smoothValue
    quiet,
    \* ---- the last evaluations of the snap curve, newest first
    curve

filterVars == <<smoothValue, errorEMA, sleeping, rawValue, responsiveValue,
                prevResponsiveValue, responsiveValueHasChanged, newValueSeen,
                quiet>>
configVars == <<pin, sleepEnable, edgeSnapEnable, snapMultiplier,
                activityThreshold, analogResolution, fracBits>>
adcVars    == <<platform, enabled, prevState, ADCSRA, prevCTRLB, prevAVGCTRL,
                prevSAMPCTRL, CTRLA_ENABLE, CTRLB, AVGCTRL, SAMPCTRL>>
vars == <<filterVars, configVars, adcVars, lastOp, lastArg, before, curve>>

(***************************************************************************)
(* Bounds of the model.                                                    *)
(***************************************************************************)
\* analogResolution of the exhaustively explored filter (raw in 0..Resolution-1)
Resolution == 11
\* fraction bits of FastAnalogFixed in the exhaustively explored filter
FracBits == 3

(***************************************************************************)
(* FastAnalogFixed arithmetic.                                             *)
(***************************************************************************)
\* the internal value of 1.0
Scale == 2^fracBits

\* C++ integer division: the quotient is truncated toward zero
TruncDiv(a, b) ==
    IF (a >= 0) = (b > 0) THEN (IF a >= 0 THEN a ELSE -a) \div (IF b > 0 THEN b ELSE -b)
    ELSE -((IF a >= 0 THEN a ELSE -a) \div (IF b > 0 THEN b ELSE -b))

\* conversion of an integer
ToFixed(n) == n * Scale

\* conversion of the decimal literal num/den (0.4, 0.01): truncated
FromDecimal(num, den) == TruncDiv(num * Scale, den)

\* x.getInteger(): the integer part (an arithmetic shift)
getInteger(x) == x \div Scale

\* a * b: the double-width product shifted right by the fraction width
FixMul(a, b) == (a * b) \div Scale

\* a / b: the dividend shifted left by the fraction width, then divided
FixDiv(a, b) == TruncDiv(a * Scale, b)

\* Arduino's abs(x) macro
abs(x) == IF x > 0 THEN x ELSE -x

(***************************************************************************)
(* Constants of the class.                                                 *)
(***************************************************************************)
const_c0 == 0
const_c1 == 1
const_c2 == 2
\* errorMargin = 0.4, as the fraction errorMarginNum / errorMarginDen
errorMarginNum == 4
errorMarginDen == 10
errorMargin == FromDecimal(errorMarginNum, errorMarginDen)

(***************************************************************************)
(* Values the callers supply.                                              *)
(***************************************************************************)
\* the raw samples: analogRead results, 0 .. analogResolution - 1
RawValues == 0 .. (analogResolution - 1)

\* snap multipliers handed to begin and setSnapMultiplier: -5, -1/2^fracBits,
\* 0, the literal 0.3, 1/2, 1, 1 + 1/2^fracBits and 5
MultiplierArgs ==
    {ToFixed(-5), -1, 0, FromDecimal(3, 10), Scale \div 2, Scale, Scale + 1, ToFixed(5)}

\* the analog input pins (A0, A1)
Pins == {14, 15}

(***************************************************************************)
(* snapCurve                                                               *)
(***************************************************************************)
\* snapCurve without the doubling
snapCurve_noDouble(x) ==
    LET y1 == FixDiv(ToFixed(const_c1), x + ToFixed(const_c1))
        y2 == ToFixed(const_c1) - y1
    IN  IF y2 > ToFixed(1) THEN ToFixed(const_c1) ELSE y2

\* snapCurve without the cap at one
snapCurve_noCap(x) ==
    LET y1 == FixDiv(ToFixed(const_c1), x + ToFixed(const_c1))
    IN  FixMul(ToFixed(const_c1) - y1, ToFixed(const_c2))

snapCurve(x) ==
    LET y1 == FixDiv(ToFixed(const_c1), x + ToFixed(const_c1))
        y2 == FixMul(ToFixed(const_c1) - y1, ToFixed(const_c2))
    IN  IF y2 > ToFixed(1) THEN ToFixed(const_c1) ELSE y2

(***************************************************************************)
(* getResponsiveValue, block by block.                                     *)
(***************************************************************************)
\* EdgeSnap with the upper edge computed as the lower one is
EdgeSnap_lowerOnly(newValue) ==
    IF sleepEnable /\ edgeSnapEnable
    THEN IF newValue < ToFixed(activityThreshold)
         THEN newValue - ToFixed(activityThreshold) + newValue
         ELSE IF newValue > ToFixed(analogResolution) - ToFixed(activityThreshold)
              THEN newValue - ToFixed(activityThreshold) + newValue
              ELSE newValue
    ELSE newValue

\* the edge-snap block: newValue as the filter sees it
EdgeSnap(newValue) ==
    IF sleepEnable /\ edgeSnapEnable
    THEN IF newValue < ToFixed(activityThreshold)
         THEN newValue - ToFixed(activityThreshold) + newValue
         ELSE IF newValue > ToFixed(analogResolution) - ToFixed(activityThreshold)
              THEN newValue + ToFixed(activityThreshold) - ToFixed(analogResolution) + newValue
              ELSE newValue
    ELSE newValue

\* diff: the integer part of the distance between newValue and smoothValue
AbsDiff(newValue) ==
    IF newValue > smoothValue
    THEN ToFixed(getInteger(newValue - smoothValue))
    ELSE ToFixed(getInteger(smoothValue - newValue))

\* NextErrorEMA summing the deviations instead of averaging them
NextErrorEMA_sum(newValue) ==
    errorEMA + FixMul(newValue - smoothValue, errorMargin)

\* errorEMA += ((newValue - smoothValue) - errorEMA) * errorMargin
NextErrorEMA(newValue) ==
    errorEMA + FixMul((newValue - smoothValue) - errorEMA, errorMargin)

\* the sleeping flag after the recalculation (ema is the new errorEMA)
NextSleeping(ema) ==
    IF sleepEnable THEN abs(ema) < ToFixed(activityThreshold) ELSE sleeping

\* ClampSmooth without the upper bound
ClampSmooth_lowerOnly(s) ==
    IF s < ToFixed(const_c0) THEN ToFixed(0) ELSE s

\* "ensure output is in bounds"
ClampSmooth(s) ==
    IF s < ToFixed(const_c0) THEN ToFixed(0)
    ELSE IF s > ToFixed(analogResolution) - ToFixed(const_c1)
         THEN ToFixed(analogResolution) - ToFixed(const_c1)
         ELSE s

\* SnapWeight with the product cut to a whole number
SnapWeight_wholeProduct(diff) ==
    snapCurve(ToFixed(getInteger(FixMul(diff, snapMultiplier))))

\* snap: the weight of the new sample, snapCurve(diff * snapMultiplier)
SnapWeight(diff) == snapCurve(FixMul(diff, snapMultiplier))

\* the smoothing step taken when the filter is awake
Smooth(newValue) ==
    LET snap == SnapWeight(AbsDiff(newValue))
    IN  ClampSmooth(smoothValue + FixMul(newValue - smoothValue, snap))

\* getResponsiveValue smoothing also while asleep
getResponsiveValue_noSkip(rawFixed) ==
    LET newValue == EdgeSnap(rawFixed)
        ema      == NextErrorEMA(newValue)
        slp      == NextSleeping(ema)
        s        == Smooth(newValue)
    IN  [smoothValue |-> s, errorEMA |-> ema, sleeping |-> slp,
         ret |-> getInteger(s), newValue |-> newValue]

\* the whole function: the fields it leaves behind, the value it returns
\* (ret) and its local newValue after the edge-snap block
getResponsiveValue(rawFixed) ==
    LET newValue == EdgeSnap(rawFixed)
        ema      == NextErrorEMA(newValue)
        slp      == NextSleeping(ema)
    IN  IF sleepEnable /\ slp
        THEN [smoothValue |-> smoothValue, errorEMA |-> ema, sleeping |-> slp,
              ret |-> getInteger(smoothValue), newValue |-> newValue]
        ELSE LET s == Smooth(newValue)
             IN  [smoothValue |-> s, errorEMA |-> ema, sleeping |-> slp,
                  ret |-> getInteger(s), newValue |-> newValue]

(***************************************************************************)
(* update(rawValueRead) and update()                                       *)
(***************************************************************************)
\* UpdateWith with a flag that, once set, stays set
UpdateWith_sticky(raw) ==
    \E r \in {getResponsiveValue(ToFixed(raw))} :
        /\ rawValue' = raw
        /\ prevResponsiveValue' = responsiveValue
        /\ responsiveValue' = r.ret
        /\ responsiveValueHasChanged' =
               (responsiveValueHasChanged \/ r.ret # responsiveValue)
        /\ smoothValue' = r.smoothValue
        /\ errorEMA' = r.errorEMA
        /\ sleeping' = r.sleeping
        /\ newValueSeen' = r.newValue
        /\ quiet' = ( /\ quiet /\ sleeping
                      /\ abs(ToFixed(raw) - smoothValue)
                             <= ToFixed(activityThreshold) )
        /\ lastOp' = "update"
        /\ lastArg' = raw
        /\ UNCHANGED <<configVars, adcVars, before, curve>>

\* update(rawValueRead): the body shared by both overloads
UpdateWith(raw) ==
    \E r \in {getResponsiveValue(ToFixed(raw))} :
        /\ rawValue' = raw
        /\ prevResponsiveValue' = responsiveValue
        /\ responsiveValue' = r.ret
        /\ responsiveValueHasChanged' = (r.ret # responsiveValue)
        /\ smoothValue' = r.smoothValue
        /\ errorEMA' = r.errorEMA
        /\ sleeping' = r.sleeping
        /\ newValueSeen' = r.newValue
        /\ quiet' = ( /\ quiet /\ sleeping
                      /\ abs(ToFixed(raw) - smoothValue)
                             <= ToFixed(activityThreshold) )
        /\ lastOp' = "update"
        /\ lastArg' = raw
        /\ UNCHANGED <<configVars, adcVars, before, curve>>

\* update(uint16_t rawValueRead)
Update(raw) == UpdateWith(raw)

\* update(): the sample is whatever analogRead(pin) returns
UpdateFromPin == \E sample \in RawValues : UpdateWith(sample)

(***************************************************************************)
(* setSnapMultiplier and begin                                             *)
(***************************************************************************)
\* StoredMultiplier without the lower bound
StoredMultiplier_upperOnly(newMultiplier) ==
    IF newMultiplier > ToFixed(const_c1) THEN ToFixed(const_c1)
    ELSE newMultiplier

\* the value setSnapMultiplier stores
StoredMultiplier(newMultiplier) ==
    IF newMultiplier > ToFixed(const_c1) THEN ToFixed(const_c1)
    ELSE IF newMultiplier < ToFixed(const_c0) THEN ToFixed(const_c0)
         ELSE newMultiplier

SetSnapMultiplier(newMultiplier) ==
    /\ snapMultiplier' = StoredMultiplier(newMultiplier)
    /\ lastOp' = "setSnapMultiplier"
    /\ lastArg' = newMultiplier
    /\ UNCHANGED <<pin, sleepEnable, edgeSnapEnable, activityThreshold,
                   analogResolution, fracBits, filterVars, adcVars, before, curve>>

Begin(p, sleep, multiplier) ==
    /\ pin' = p
    /\ sleepEnable' = sleep
    /\ snapMultiplier' = StoredMultiplier(multiplier)
    /\ lastOp' = "begin"
    /\ lastArg' = multiplier
    /\ UNCHANGED <<edgeSnapEnable, activityThreshold, analogResolution, fracBits,
                   filterVars, adcVars, before, curve>>

(***************************************************************************)
(* enableFastADC                                                           *)
(***************************************************************************)
RECURSIVE BitAnd(_, _)
BitAnd(a, b) ==
    IF a = 0 \/ b = 0 THEN 0
    ELSE (a % 2) * (b % 2) + 2 * BitAnd(a \div 2, b \div 2)

RECURSIVE BitOr(_, _)
BitOr(a, b) ==
    IF a = 0 THEN b
    ELSE IF b = 0 THEN a
    ELSE (IF a % 2 = 1 \/ b % 2 = 1 THEN 1 ELSE 0) + 2 * BitOr(a \div 2, b \div 2)

\* the mask of "ADC->CTRLB.reg & 11100000000": the literal is decimal, eleven
\* thousand one hundred million, and of it only the 16 bits of the register
\* count: 11100 * 1000000 modulo 2^16, which is 36608 = 0b1000111100000000
CtrlbSaveMask == (11100 * (1000000 % 65536)) % 65536
\* 0b1111100011111111: everything but the prescaler bits 10:8
CtrlbKeepMask == 63743
\* ADC_CTRLB_PRESCALER_DIV64
PrescalerDiv64 == 1024

\* AvrFastADC never saving the prescaler it replaces
AvrFastADC_noSave(enable) ==
    /\ IF enable
       THEN /\ ADCSRA' = BitOr(BitAnd(ADCSRA, 248), 4)
            /\ enabled' = TRUE
       ELSE /\ ADCSRA' = BitOr(BitAnd(ADCSRA, 248), prevState)
            /\ enabled' = FALSE
    /\ UNCHANGED <<prevState, prevCTRLB, prevAVGCTRL, prevSAMPCTRL, CTRLA_ENABLE,
                   CTRLB, AVGCTRL, SAMPCTRL>>

\* the AVR branch
AvrFastADC(enable) ==
    /\ IF enable
       THEN /\ prevState' = BitAnd(ADCSRA, 7)
            /\ ADCSRA' = BitOr(BitAnd(ADCSRA, 248), 4)
            /\ enabled' = TRUE
       ELSE /\ ADCSRA' = BitOr(BitAnd(ADCSRA, 248), prevState)
            /\ enabled' = FALSE
            /\ UNCHANGED prevState
    /\ UNCHANGED <<prevCTRLB, prevAVGCTRL, prevSAMPCTRL, CTRLA_ENABLE, CTRLB,
                   AVGCTRL, SAMPCTRL>>

\* the SAMD21 branch; the converter is switched off, reconfigured, switched on
SamdFastADC(enable) ==
    /\ IF enable
       THEN /\ prevCTRLB' = BitAnd(CTRLB, CtrlbSaveMask)
            /\ prevAVGCTRL' = AVGCTRL
            /\ prevSAMPCTRL' = SAMPCTRL
            /\ CTRLB' = BitOr(BitAnd(CTRLB, CtrlbKeepMask), PrescalerDiv64)
            /\ AVGCTRL' = 0
            /\ SAMPCTRL' = 0
            /\ enabled' = TRUE
       ELSE /\ CTRLB' = BitOr(BitAnd(CTRLB, CtrlbKeepMask), prevCTRLB)
            /\ AVGCTRL' = prevAVGCTRL
            /\ SAMPCTRL' = prevSAMPCTRL
            /\ enabled' = FALSE
            /\ UNCHANGED <<prevCTRLB, prevAVGCTRL, prevSAMPCTRL>>
    /\ CTRLA_ENABLE' = 1
    /\ UNCHANGED <<prevState, ADCSRA>>

\* the prescaler and sampling configuration of the converter
AdcConfig ==
    IF platform = "AVR" THEN <<BitAnd(ADCSRA, 7)>>
    ELSE <<BitAnd(CTRLB, 1792), AVGCTRL, SAMPCTRL>>

EnableFastADC(enable) ==
    /\ lastOp' = "enableFastADC"
    /\ lastArg' = IF enable THEN 1 ELSE 0
    /\ IF (enable /\ enabled) \/ (~enable /\ ~enabled)
       THEN UNCHANGED <<enabled, prevState, ADCSRA, prevCTRLB, prevAVGCTRL,
                        prevSAMPCTRL, CTRLA_ENABLE, CTRLB, AVGCTRL, SAMPCTRL, before>>
       ELSE /\ before' = IF enable THEN AdcConfig ELSE before
            /\ IF platform = "AVR" THEN AvrFastADC(enable)
               ELSE SamdFastADC(enable)
    /\ UNCHANGED <<platform, filterVars, configVars, curve>>

(***************************************************************************)
(* The filter driven by arbitrary samples.                                 *)
(***************************************************************************)
\* activityThreshold of the explored filter
Threshold == 5

\* the converter as the filter specifications leave it: never touched
AdcIdle ==
    /\ platform = "AVR" /\ enabled = FALSE /\ prevState = 0 /\ ADCSRA = 135
    /\ prevCTRLB = 0 /\ prevAVGCTRL = 0 /\ prevSAMPCTRL = 0
    /\ CTRLA_ENABLE = 1 /\ CTRLB = 0 /\ AVGCTRL = 0 /\ SAMPCTRL = 0
    /\ before = <<>>

\* a filter at rest at the integer s: smoothValue is s, the error average has
\* decayed to zero, the last sample and the last outputs were s (s = 0 is
\* also the object as constructed); the sleeping flag is as the calls made
\* under an earlier configuration left it
FilterAt(s) ==
    /\ smoothValue = ToFixed(s) /\ errorEMA = 0 /\ sleeping \in BOOLEAN
    /\ rawValue = s /\ responsiveValue = s /\ prevResponsiveValue = s
    /\ responsiveValueHasChanged = FALSE
    /\ newValueSeen = ToFixed(s)
    /\ quiet = sleeping

\* the configuration after begin(A0, sleepEnable, snapMultiplier), for any
\* arguments, and either setting of edge snap
Configured(resolution, threshold, bits) ==
    /\ fracBits = bits
    /\ analogResolution = resolution
    /\ activityThreshold = threshold
    /\ edgeSnapEnable \in BOOLEAN
    /\ pin = 14
    /\ sleepEnable \in BOOLEAN
    /\ snapMultiplier \in {StoredMultiplier(m) : m \in MultiplierArgs}
    /\ lastOp = "begin" /\ lastArg = snapMultiplier

\* the object as constructed and configured by begin
InitFresh ==
    /\ Configured(Resolution, Threshold, FracBits)
    /\ FilterAt(0)
    /\ AdcIdle
    /\ curve = <<>>

\* the filter at rest anywhere in its range
Init ==
    /\ Configured(Resolution, Threshold, FracBits)
    /\ \E s \in 0 .. (Resolution - 1) : FilterAt(s)
    /\ AdcIdle
    /\ curve = <<>>

Next == \E raw \in RawValues : Update(raw)

Spec == Init /\ [][Next]_vars

\* The filter fed from its pin.  analogRead may return any sample, so update()
\* takes exactly the steps of update(raw) over all raw: SpecPin and Spec have
\* the same behaviours.
SpecPin == Init /\ [][UpdateFromPin]_vars

(***************************************************************************)
(* The configuration calls alone.                                          *)
(***************************************************************************)
NextConfig ==
    \/ \E m \in MultiplierArgs : SetSnapMultiplier(m)
    \/ \E p \in Pins, s \in BOOLEAN, m \in MultiplierArgs : Begin(p, s, m)

SpecConfig == InitFresh /\ [][NextConfig]_vars

(***************************************************************************)
(* A caller that feeds one sample r over and over: loop() { update(r); }   *)
(***************************************************************************)
\* the first call of the loop, with the sample it will keep feeding
UpdateFirst(raw) == lastOp = "begin" /\ Update(raw)

\* every later call
UpdateSame == lastOp = "update" /\ Update(rawValue)

NextHold ==
    \/ \E raw \in RawValues : UpdateFirst(raw)
    \/ UpdateSame

\* the loop never stops calling update
SpecHold == Init /\ [][NextHold]_vars /\ WF_vars(NextHold)

(***************************************************************************)
(* The same caller on a 10-bit converter, snapMultiplier 0.01, sleep        *)
(* disabled, the filter at rest at 512.                                    *)
(***************************************************************************)
\* fraction bits of FastAnalogFixed in this scenario
FracBitsE2E == 9
\* the samples the caller may choose to feed
SamplesE2E == {0, 500, 600, 1023}

InitE2E ==
    /\ fracBits = FracBitsE2E
    /\ analogResolution = 1024
    /\ activityThreshold = Threshold
    /\ edgeSnapEnable \in BOOLEAN
    /\ pin = 14
    /\ sleepEnable = FALSE
    /\ snapMultiplier = StoredMultiplier(FromDecimal(1, 100))
    /\ lastOp = "begin" /\ lastArg = snapMultiplier
    /\ FilterAt(512)
    /\ AdcIdle
    /\ curve = <<>>

NextE2E ==
    \/ \E raw \in SamplesE2E : UpdateFirst(raw)
    \/ UpdateSame

SpecE2E == InitE2E /\ [][NextE2E]_vars

(***************************************************************************)
(* The converter switched between fast and normal mode.                    *)
(***************************************************************************)
\* register contents enableFastADC may find
AdcsraValues    == 0 .. 255
CtrlbValues     == {256 * p + o : p \in 0 .. 7, o \in {0, 16, 48, 2048, 32768, 63743}}
AvgctrlValues   == {0, 34, 127}
SampctrlValues  == {0, 5, 63}

InitADC ==
    /\ Configured(Resolution, Threshold, FracBits)
    /\ sleepEnable = FALSE /\ edgeSnapEnable = TRUE /\ snapMultiplier = Scale
    /\ FilterAt(0)
    /\ curve = <<>>
    /\ platform \in {"AVR", "SAMD21"}
    /\ enabled = FALSE
    /\ prevState = 0 /\ prevCTRLB = 0 /\ prevAVGCTRL = 0 /\ prevSAMPCTRL = 0
    /\ before = <<>>
    /\ CTRLA_ENABLE = 1
    /\ IF platform = "AVR"
       THEN /\ ADCSRA \in AdcsraValues
            /\ CTRLB = 0 /\ AVGCTRL = 0 /\ SAMPCTRL = 0
       ELSE /\ ADCSRA = 0
            /\ CTRLB \in CtrlbValues
            /\ AVGCTRL \in AvgctrlValues
            /\ SAMPCTRL \in SampctrlValues

NextADC == \E enable \in BOOLEAN : EnableFastADC(enable)

SpecADC == InitADC /\ [][NextADC]_vars

(***************************************************************************)
(* Claims about the filter under arbitrary samples (Spec).                 *)
(***************************************************************************)
\* C1: after every update, whatever the samples and the configuration,
\* smoothValue lies in [0, analogResolution - 1] and so does the integer
\* returned, also when edge snap pushed the input out of that range
C1_Bounds ==
    /\ smoothValue >= ToFixed(0)
    /\ smoothValue <= ToFixed(analogResolution - 1)
    /\ responsiveValue \in 0 .. (analogResolution - 1)

\* an awake update whose edge-snapped input lay above analogResolution - 1
\* and whose result was clamped to analogResolution - 1
C1_Witness ==
    /\ lastOp = "update" /\ sleepEnable /\ edgeSnapEnable /\ ~sleeping
    /\ newValueSeen > ToFixed(analogResolution - 1)
    /\ smoothValue = ToFixed(analogResolution - 1)
    /\ snapMultiplier < Scale

\* C2 as stated: with sleepEnable and activityThreshold = 5, once the filter
\* sleeps at rest at v, every update with a sample within 5 units of v, for
\* as long as only such samples arrive, returns the output unchanged
C2_AsStated ==
    (sleepEnable /\ activityThreshold = 5 /\ quiet /\ lastOp = "update")
        => (responsiveValue = prevResponsiveValue /\ ~responsiveValueHasChanged)

\* C2 amended: with activityThreshold = 5, once the filter sleeps with
\* smoothValue v, an update whose input as filtered (after edge snap) lies
\* strictly less than 5 units from v leaves the filter asleep, smoothValue
\* untouched and the output unchanged
C2_SleepFreeze ==
    [][ ( /\ sleepEnable /\ sleeping
          /\ activityThreshold = 5
          /\ lastOp' = "update"
          /\ abs(newValueSeen' - smoothValue) < ToFixed(5) )
        => /\ sleeping'
           /\ smoothValue' = smoothValue
           /\ responsiveValue' = responsiveValue
           /\ ~responsiveValueHasChanged' ]_vars

\* the filter, having moved to a value between two integers, sleeps through
\* a sample more than 4 units away from its estimate
C2_Witness ==
    /\ lastOp = "update" /\ sleepEnable /\ sleeping /\ activityThreshold = 5
    /\ smoothValue # ToFixed(getInteger(smoothValue))
    /\ abs(newValueSeen - smoothValue) < ToFixed(5)
    /\ abs(newValueSeen - smoothValue) > ToFixed(4)
    /\ errorEMA # 0
    /\ ~responsiveValueHasChanged

\* C7: after every update(raw), outputChanged tells whether the output of
\* this call differs from the output of the call before it, whatever changed
\* earlier; the previous output is kept, and lastRaw is raw
C7_OutputChanged ==
    [][ lastOp' = "update"
        => /\ responsiveValueHasChanged' = (responsiveValue' # responsiveValue)
           /\ prevResponsiveValue' = responsiveValue
           /\ responsiveValue' = getInteger(smoothValue')
           /\ rawValue' = lastArg' ]_vars

\* an awake update that moved the estimate (to a value between two integers)
\* and left the output as it was
C7_Witness ==
    /\ lastOp = "update"
    /\ ~responsiveValueHasChanged
    /\ responsiveValue = prevResponsiveValue
    /\ ~sleepEnable
    /\ smoothValue # ToFixed(responsiveValue)
    /\ responsiveValue # rawValue

\* C8: an update with sleep enabled whose new |errorEMA| is below the
\* threshold leaves smoothValue alone and returns its integer part, yet has
\* updated errorEMA by 0.4 of its distance to the signed deviation; with
\* sleep disabled update never changes the sleeping flag and never skips the
\* smoothing: an input a whole unit or more away moves smoothValue whenever
\* the multiplier is not zero
C8_SleepingStep ==
    [][ lastOp' = "update"
        => /\ errorEMA' = errorEMA
                + FixMul((newValueSeen' - smoothValue) - errorEMA,
                         FromDecimal(4, 10))
           /\ (sleepEnable /\ abs(errorEMA') < ToFixed(activityThreshold))
                => /\ smoothValue' = smoothValue
                   /\ responsiveValue' = getInteger(smoothValue)
                   /\ sleeping'
           /\ ~sleepEnable
                => /\ sleeping' = sleeping
                   /\ (snapMultiplier > 0
                        /\ abs(newValueSeen' - smoothValue) >= ToFixed(1))
                       => smoothValue' # smoothValue ]_vars

\* a sleeping update: the input was two units or more from the estimate and
\* the error average moved
C8_Witness ==
    /\ lastOp = "update" /\ sleepEnable /\ sleeping
    /\ snapMultiplier > 0
    /\ abs(newValueSeen - smoothValue) >= ToFixed(2)
    /\ errorEMA # 0

\* C9: the sample is altered before filtering only when sleepEnable and
\* edgeSnapEnable both hold: then a sample below activityThreshold becomes
\* 2*raw - activityThreshold, strictly smaller, a sample above
\* analogResolution - activityThreshold becomes
\* 2*raw + activityThreshold - analogResolution, strictly larger, and any
\* other sample is filtered as it is
C9_EdgeSnap ==
    lastOp = "update" =>
        LET raw == rawValue
            nv  == newValueSeen
        IN  IF sleepEnable /\ edgeSnapEnable
            THEN /\ raw < activityThreshold
                    => (nv = ToFixed(2 * raw - activityThreshold) /\ nv < ToFixed(raw))
                 /\ raw > analogResolution - activityThreshold
                    => /\ nv = ToFixed(2 * raw + activityThreshold - analogResolution)
                       /\ nv > ToFixed(raw)
                 /\ (raw >= activityThreshold
                        /\ raw <= analogResolution - activityThreshold)
                    => nv = ToFixed(raw)
            ELSE nv = ToFixed(raw)

\* a sample near the upper edge was pushed beyond the range
C9_Witness ==
    /\ lastOp = "update" /\ sleepEnable /\ edgeSnapEnable
    /\ rawValue > analogResolution - activityThreshold
    /\ newValueSeen > ToFixed(analogResolution)

(***************************************************************************)
(* The snap curve evaluated on its own.                                    *)
(***************************************************************************)
\* the largest argument, in whole units, the curve is evaluated at
CurveMax == 2
CurveArgs == 0 .. ToFixed(CurveMax)

\* the newest evaluation and the one before it
Remember(entry) == <<entry>> \o (IF curve = <<>> THEN <<>> ELSE <<curve[1]>>)

\* y = snapCurve(x)
EvalSnapCurve(x) ==
    /\ curve' = Remember([kind |-> "snapCurve", x |-> x, y |-> snapCurve(x)])
    /\ lastOp' = "snapCurve" /\ lastArg' = x
    /\ UNCHANGED <<filterVars, configVars, adcVars, before>>

\* snap = snapCurve(diff * snapMultiplier) for a deviation of d whole units
EvalSnapWeight(d) ==
    /\ curve' = Remember([kind |-> "weight", x |-> d, y |-> SnapWeight(ToFixed(d))])
    /\ lastOp' = "snapCurve" /\ lastArg' = d
    /\ UNCHANGED <<filterVars, configVars, adcVars, before>>

NextCurve ==
    \/ \E x \in CurveArgs : EvalSnapCurve(x)
    \/ \E d \in RawValues : EvalSnapWeight(d)

SpecCurve == InitFresh /\ [][NextCurve]_vars

(***************************************************************************)
(* Claims about the snap curve (SpecCurve).                                *)
(***************************************************************************)
\* C5: for x >= 0, snapCurve(x) lies in [0, 1], is 0 at x = 0, is exactly 1
\* for every x >= 1 and never decreases as x grows; so the weight given to a
\* larger deviation is never smaller than the weight given to a smaller one
C5_SnapCurve ==
    /\ \A i \in 1 .. Len(curve) :
          /\ curve[i].y >= 0 /\ curve[i].y <= ToFixed(1)
          /\ curve[i].kind = "snapCurve" =>
                /\ curve[i].x = 0 => curve[i].y = 0
                /\ curve[i].x >= ToFixed(1) => curve[i].y = ToFixed(1)
    /\ (Len(curve) = 2 /\ curve[1].kind = curve[2].kind /\ curve[1].x <= curve[2].x)
          => curve[1].y <= curve[2].y

\* the curve evaluated below one, with a result strictly between 0 and 1,
\* and then at one or above, with the result 1; and sleep is disabled
C5_Witness ==
    /\ Len(curve) = 2
    /\ curve[1].kind = "snapCurve" /\ curve[2].kind = "snapCurve"
    /\ curve[2].x < ToFixed(1) /\ curve[2].y > 0 /\ curve[2].y < ToFixed(1)
    /\ curve[1].x >= ToFixed(1) /\ curve[1].y = ToFixed(1)
    /\ ~sleepEnable

(***************************************************************************)
(* Claims about the configuration calls (SpecConfig).                      *)
(***************************************************************************)
\* C6: after any begin and setSnapMultiplier calls the stored multiplier lies
\* in [0, 1]; a call with v stores 1 when v > 1, 0 when v < 0 and v
\* otherwise: -5 stores 0, 5 stores 1, 0.3 stores 0.3
C6_MultiplierClamp ==
    /\ snapMultiplier >= 0 /\ snapMultiplier <= ToFixed(1)
    /\ lastOp \in {"begin", "setSnapMultiplier"} =>
          /\ lastArg > ToFixed(1) => snapMultiplier = ToFixed(1)
          /\ lastArg < 0 => snapMultiplier = 0
          /\ (lastArg >= 0 /\ lastArg <= ToFixed(1)) => snapMultiplier = lastArg
          /\ lastArg = ToFixed(-5) => snapMultiplier = 0
          /\ lastArg = ToFixed(5) => snapMultiplier = ToFixed(1)
          /\ lastArg = FromDecimal(3, 10) => snapMultiplier = FromDecimal(3, 10)

\* setSnapMultiplier(-5) has stored 0
C6_Witness ==
    /\ lastOp = "setSnapMultiplier"
    /\ lastArg = ToFixed(-5)
    /\ snapMultiplier = 0

(***************************************************************************)
(* Claims about enableFastADC (SpecADC).                                   *)
(***************************************************************************)
\* C10: a call whose argument equals the current enabled state changes no
\* register and nothing saved; a disabling call that follows the enabling
\* one leaves the prescaler and sampling configuration as the enabling call
\* found it, on the AVR (ADCSRA bits 2:0) and on the SAMD21 (CTRLB
\* prescaler bits, AVGCTRL, SAMPCTRL)
C10_FastADC ==
    [][ lastOp' = "enableFastADC"
        => /\ ((lastArg' = 1) = enabled)
                => UNCHANGED <<enabled, prevState, ADCSRA, prevCTRLB, prevAVGCTRL,
                               prevSAMPCTRL, CTRLA_ENABLE, CTRLB, AVGCTRL, SAMPCTRL>>
           /\ (lastArg' = 1 /\ ~enabled) => enabled'
           /\ (lastArg' = 0 /\ enabled)
                => (~enabled' /\ AdcConfig' = before) ]_vars

\* fast mode was switched on and off again on a SAMD21 whose prescaler,
\* averaging and sampling time all differed from the fast settings
C10_Witness ==
    /\ lastOp = "enableFastADC" /\ lastArg = 0 /\ ~enabled
    /\ platform = "SAMD21"
    /\ before # <<>>
    /\ AdcConfig = before
    /\ before[1] # PrescalerDiv64 /\ before[2] # 0 /\ before[3] # 0

(***************************************************************************)
(* Claims about one sample fed over and over (SpecHold).                   *)
(***************************************************************************)
\* the distance left between the estimate and the sample being fed
Gap == abs(smoothValue - ToFixed(rawValue))

\* update has come to rest: one more call with the same sample would leave
\* every field of the filter as it is
Settled ==
    /\ getResponsiveValue(ToFixed(rawValue)).smoothValue = smoothValue
    /\ getResponsiveValue(ToFixed(rawValue)).errorEMA = errorEMA
    /\ getResponsiveValue(ToFixed(rawValue)).sleeping = sleeping
    /\ getResponsiveValue(ToFixed(rawValue)).ret = responsiveValue
    /\ prevResponsiveValue = responsiveValue
    /\ ~responsiveValueHasChanged

\* C3 as stated, for the configuration most favourable to it (sleep disabled,
\* multiplier above zero): feeding r over and over brings smoothValue to r
\* itself; so where the repeated update has come to rest, and no further
\* call can change anything, smoothValue is r
C3_AsStated ==
    (lastOp = "update" /\ ~sleepEnable /\ snapMultiplier > 0 /\ Settled)
        => smoothValue = ToFixed(rawValue)

\* C3 amended: with sleep disabled and a multiplier above zero, feeding r
\* over and over brings smoothValue to less than one unit from r, where it
\* comes to rest (not necessarily at r), after which outputChanged stays
\* false
C3_Converges ==
    (~sleepEnable /\ snapMultiplier > 0)
        => <>[](lastOp = "update" /\ Gap < ToFixed(1) /\ Settled)

\* the filter at rest a fraction of a unit from the sample it is being fed,
\* having moved there from somewhere else
C3_Witness ==
    /\ lastOp = "update" /\ ~sleepEnable /\ snapMultiplier > 0
    /\ Gap > 0 /\ Gap < ToFixed(1)
    /\ Settled
    /\ responsiveValue # rawValue

(***************************************************************************)
(* Claims about the 10-bit scenario (SpecE2E).                             *)
(***************************************************************************)
\* the first call of the scenario: update(600) on the filter at rest at 512
FirstStep600 ==
    /\ lastOp = "begin" /\ smoothValue = ToFixed(512)
    /\ lastOp' = "update" /\ rawValue' = 600
    /\ analogResolution = 1024 /\ ~sleepEnable
    /\ snapMultiplier = FromDecimal(1, 100)

\* x is within tol hundredths of c hundredths
NearHundredths(x, c, tol) == abs(100 * x - c * Scale) <= tol * Scale

\* C4 as stated: diff = 88, snap about 0.36, smoothValue about 543 and the
\* integer returned about 543
C4_AsStated ==
    [][ FirstStep600
        => /\ AbsDiff(ToFixed(600)) = ToFixed(88)
           /\ NearHundredths(SnapWeight(ToFixed(88)), 36, 2)
           /\ abs(smoothValue' - ToFixed(543)) <= ToFixed(1)
           /\ abs(responsiveValue' - 543) <= 1 ]_vars

\* C4 amended: diff = 88, snap = snapCurve(0.88) about 0.94, smoothValue
\* about 512 + 0.94 * 88 = 594 and the integer returned about 594
C4_EndToEnd ==
    [][ FirstStep600
        => /\ AbsDiff(ToFixed(600)) = ToFixed(88)
           /\ NearHundredths(SnapWeight(ToFixed(88)), 94, 2)
           /\ abs(smoothValue' - ToFixed(594)) <= ToFixed(1)
           /\ abs(responsiveValue' - 594) <= 1
           /\ responsiveValue' = getInteger(smoothValue') ]_vars

\* update(600) has been called once on the filter at rest at 512
C4_Witness ==
    /\ lastOp = "update" /\ rawValue = 600
    /\ prevResponsiveValue = 512
    /\ analogResolution = 1024 /\ ~sleepEnable
    /\ snapMultiplier = FromDecimal(1, 100)
    /\ responsiveValueHasChanged

====
